---- MODULE Spec2Model ----
(***************************************************************************)
(* git-analyzer: the commit download pipeline of git_analyzer.github.      *)
(*                                                                         *)
(*   Download    (download.py)    listing, per-commit save loop, index.csv *)
(*   Repository  (repository.py)  existence probe, paged commit listing    *)
(*   Commit      (commit.py)      detail fetch, parse, <sha>.parquet        *)
(*                                                                         *)
(* The remote (GitHub) is the environment: a fixed newest-first history,   *)
(* a status for the existence probe, and one outcome per detail request.   *)
(* The data/ directory is the durable state.                               *)
(***************************************************************************)
EXTENDS Integers, Sequences, FiniteSets, TLC

VARIABLES
    remote,      \* the remote history: commit shas, newest first
    dirs,        \* directories that exist under data/
    artifacts,   \* artifact path -> the parquet file stored there
    index,       \* repository directory -> its index.csv
    dl,          \* the Download object (owner, repo, num_commits, num_pages, commits_df)
    pc,          \* where the running method of the Download object stands
    call,        \* the running method: name, overwrite, loop position, saved_files
    listing,     \* Repository.get_commits_async in flight: tasks, gather order, results
    commit,      \* the Commit object of the loop iteration that is awaiting its detail
    ret,         \* how the last finished method ended: return value or exception
    reqs,        \* requests issued since the Download was constructed, by kind
    run,         \* history of the current download_commits call
    lastSave,    \* history of the last Commit.save / save_async
    lastMerge,   \* history of the last save_index
    pre,         \* the data/ directory as it was when the last constructor started
    prev,        \* the data/ directory as the last successful run left it
    objects,     \* number of Download objects constructed so far
    calls,       \* number of get_commits_df / download_commits calls so far
    gh,          \* the GitHub object that issues the requests: its rate counters
    observed,    \* history: the rate-limit headers its responses carried
    token,       \* GitHub.token, read from the environment when the class is loaded
    sent,        \* history: the headers of the last request issued
    returned,    \* history: what Repository.get_commits and get_commits_async last returned
    lastGet,     \* history of the last Commit.get_commit / get_commit_async
    writers,     \* the save_index calls in progress, each between its read and its write
    firstRun,    \* history: the first run that returned, and the data/ directory as it left it
    session,     \* the aiohttp session of the last Repository.get_commits_async call
    cli          \* scripts/Downloader.py main: where it stands, what it has read, what it passed on

vars == <<remote, dirs, artifacts, index, dl, pc, call, listing, commit, ret,
          reqs, run, lastSave, lastMerge, pre, prev, objects, calls, gh, observed,
          token, sent, returned, lastGet, writers, firstRun, session, cli>>

----------------------------------------------------------------------------
(* Bounds *)

MaxHistory == 2     \* commits in the remote history
MaxCount == 2       \* largest number_of_commits handed to Download
PerPage == 2        \* records per listing page; the source asks for 100
                    \* (repository.py:203, download.py:40), scaled down so
                    \* that a listing of a few commits spans several pages
MaxObjects == 2     \* Download objects constructed in one behaviour
MaxCalls == 2       \* get_commits_df / download_commits calls in one behaviour
MaxEntries == 2     \* rows of a commits table handed to save_index directly
MaxAwaiting == 2    \* get_async calls of one object awaiting their response
MaxFiles == 2       \* file records of a commit handed to Commit.parse
MaxPages == 2       \* max_pages of Repository.get_commits / get_commits_async
MaxWriters == 2     \* Download objects of one repository inside save_index at once
MaxInput == 4       \* characters of one line typed at a prompt of the command-line tool
MaxPrompts == 2     \* lines read at the commit-count prompt in one behaviour

\* for the listings that span pages: two full pages of history, and a count
\* that ends inside the second page
PagedHistory == 2 * PerPage
PagedCount == PerPage + 1

ShaNames == <<"c1", "c2", "c3", "c4", "c5", "c6", "c7", "c8">>
Shas == {ShaNames[i] : i \in 1..Len(ShaNames)}
Owners == {"torvalds"}
Names == {"linux"}
Metas == {0, 1}     \* the columns of a listing record other than sha

Min(a, b) == IF a < b THEN a ELSE b
Range(s) == {s[i] : i \in 1..Len(s)}
SeqsUpTo(S, n) == UNION {[1..k -> S] : k \in 0..n}

----------------------------------------------------------------------------
(* Tables (pandas DataFrame): a column list and a row list *)

DataFrame(columns, rows) == [columns |-> columns, rows |-> rows]
EmptyFrame == DataFrame(<<>>, <<>>)          \* pd.DataFrame([]): no columns
HasColumn(df, c) == c \in Range(df.columns)
iloc_all(df, n) == df
iloc(df, n) == DataFrame(df.columns, SubSeq(df.rows, 1, Min(n, Len(df.rows))))

CommitColumns ==
    <<"sha", "node_id", "commit", "url", "html_url", "comments_url",
      "author", "committer", "parents">>

\* Repository.__convert_commits_to_df: the columns are the keys of the records
convert_commits_to_df(commits) ==
    IF commits = <<>> THEN EmptyFrame ELSE DataFrame(CommitColumns, commits)

----------------------------------------------------------------------------
(* index.csv *)

NoFile == [exists |-> FALSE, header |-> <<>>, rows |-> <<>>]

\* DataFrame.to_csv writes each cell as text: sha is text already, the nested
\* records of the other columns are written as their string form
CsvRow(r) == [sha |-> r.sha, meta |-> <<"str", r.meta>>]
to_csv_rows(df) == [i \in 1..Len(df.rows) |-> CsvRow(df.rows[i])]

\* pd.read_csv(header=0): a file whose header line names no column has no
\* columns to parse (EmptyDataError); the cells come back as the text stored
read_csv(file) ==
    IF file.header = <<>>
    THEN [raised |-> TRUE, exc |-> "EmptyDataError", df |-> EmptyFrame]
    ELSE [raised |-> FALSE, exc |-> "", df |-> DataFrame(file.header, file.rows)]

\* Download.get_index
get_index(file) ==
    IF file.exists
    THEN read_csv(file)
    ELSE [raised |-> FALSE, exc |-> "", df |-> EmptyFrame]

column_sha(df) == {df.rows[i].sha : i \in 1..Len(df.rows)}

\* commits.loc[~commits["sha"].isin(index_df["sha"])]
not_indexed_inverted(commits, index_df) ==
    DataFrame(commits.columns,
              SelectSeq(commits.rows, LAMBDA r : r.sha \in column_sha(index_df)))
not_indexed(commits, index_df) ==
    DataFrame(commits.columns,
              SelectSeq(commits.rows, LAMBDA r : r.sha \notin column_sha(index_df)))

\* Download.save_index: the file it leaves and how it ends
save_index_rewrite(file, commits) ==
    [file |-> [exists |-> TRUE, header |-> commits.columns, rows |-> to_csv_rows(commits)],
     raised |-> FALSE, exc |-> ""]
save_index(file, commits) ==
    IF file.exists
    THEN LET rd == get_index(file) IN
         IF rd.raised
         THEN [file |-> file, raised |-> TRUE, exc |-> rd.exc]
         ELSE IF ~HasColumn(commits, "sha") \/ ~HasColumn(rd.df, "sha")
         THEN [file |-> file, raised |-> TRUE, exc |-> "KeyError"]
         ELSE [file |-> [file EXCEPT !.rows = @ \o to_csv_rows(not_indexed(commits, rd.df))],
               raised |-> FALSE, exc |-> ""]
    ELSE [file |-> [exists |-> TRUE, header |-> commits.columns,
                    rows |-> to_csv_rows(commits)],
          raised |-> FALSE, exc |-> ""]

index_path(name) == <<"data", name, "index", ".csv">>

----------------------------------------------------------------------------
(* The remote *)

\* one record of GET /repos/{owner}/{name}/commits
ListingRecord(s) == [sha |-> s, meta |-> 0]
RemoteRecords == [i \in 1..Len(remote) |-> ListingRecord(remote[i])]

\* the body of the listing response for params page=p, per_page: a page past
\* the end of the history is the empty list
Page(p) == SubSeq(RemoteRecords, (p - 1) * PerPage + 1, Min(p * PerPage, Len(remote)))

\* the file list of a commit, as GET /repos/{owner}/{name}/commits/{sha} gives it
FileRecord(name, haspatch) == [filename |-> name, haspatch |-> haspatch]
DetailFiles(s) ==
    CASE s = "c1" -> <<>>
      [] s = "c2" -> <<FileRecord("a.py", TRUE)>>
      [] s = "c3" -> <<FileRecord("b.bin", FALSE)>>
      [] OTHER    -> <<FileRecord("a.py", TRUE), FileRecord("b.bin", FALSE)>>

\* how one detail request can end: a payload with the files key, a payload
\* without it (404 Not Found, 403 rate limit: {"message": ...}), or an
\* exception out of the transport or of resp.json()
Outcomes == {"ok", "nofiles", "error"}
ProbeStatus == {200, 404}

----------------------------------------------------------------------------
(* GitHub: the base class of Repository and Commit *)

HeaderNames == {"x-ratelimit-limit", "x-ratelimit-remaining"}
RateTexts == {"0", "60", "5000"}

\* the headers of a response: a value, as text, for each header it carries
AnyHeaders == UNION {[S -> RateTexts] : S \in SUBSET HeaderNames}
\* api.github.com sends both
ApiHeaders == {[n \in HeaderNames |-> IF n = "x-ratelimit-limit" THEN "60" ELSE "0"]}

\* int(resp.headers[...]) on a decimal text
int(text) ==
    CASE text = "0" -> 0
      [] text = "60" -> 60
      [] text = "5000" -> 5000

\* GitHub.token = os.environ.get("GH_TOKEN"): None, or the text of the variable
NoToken == <<>>
Tokens == {NoToken, <<"">>, <<"ghp_1">>}

\* "if self.token": None and the empty text are false
truthy(t) == t # NoToken /\ t[1] # ""

\* GitHub.build_headers; f"token {self.token}" is the pair of its two parts
build_headers_anonymous(t) ==
    [h \in {"Accept", "per_page", "page"} |->
       CASE h = "Accept" -> "application/vnd.github+json"
         [] h = "per_page" -> "100"
         [] h = "page" -> "1"]
build_headers(t) ==
    LET headers == [h \in {"Accept", "per_page", "page"} |->
                      CASE h = "Accept" -> "application/vnd.github+json"
                        [] h = "per_page" -> "100"
                        [] h = "page" -> "1"]
    IN IF truthy(t)
       THEN [h \in DOMAIN headers \cup {"Authorization"} |->
               IF h = "Authorization" THEN <<"token ", t[1]>> ELSE headers[h]]
       ELSE headers

\* history of the requests of one object: requests.get / session.get called
\* with headers=self.headers, which __init__ set to build_headers()
NoSent == [issued |-> FALSE, headers |-> [h \in {} |-> ""]]
Send(t) == [issued |-> TRUE, headers |-> build_headers(t)]

\* GitHub.__init__
NewGitHub == [ratelimit_limit |-> -1, ratelimit_remaining |-> -1, awaiting |-> 0]

\* "Get the ratelimit info from the headers" of get and get_async
observe_overwrite(g, headers) ==
    [g EXCEPT
       !.ratelimit_limit = IF "x-ratelimit-limit" \in DOMAIN headers
                           THEN int(headers["x-ratelimit-limit"]) ELSE -1,
       !.ratelimit_remaining = IF "x-ratelimit-remaining" \in DOMAIN headers
                               THEN int(headers["x-ratelimit-remaining"]) ELSE -1]
observe(g, headers) ==
    [g EXCEPT
       !.ratelimit_limit = IF "x-ratelimit-limit" \in DOMAIN headers
                           THEN int(headers["x-ratelimit-limit"]) ELSE @,
       !.ratelimit_remaining = IF "x-ratelimit-remaining" \in DOMAIN headers
                               THEN int(headers["x-ratelimit-remaining"]) ELSE @]

\* history of the responses of one object: the text of each header as last
\* carried ("" while none carried it) and the headers of the last response
NoObserved == [limit |-> "", remaining |-> "", last |-> {}, responses |-> 0]
Observe(g, o, headers) ==
    /\ gh' = observe(g, headers)
    /\ observed' =
          [limit |-> IF "x-ratelimit-limit" \in DOMAIN headers
                     THEN headers["x-ratelimit-limit"] ELSE o.limit,
           remaining |-> IF "x-ratelimit-remaining" \in DOMAIN headers
                         THEN headers["x-ratelimit-remaining"] ELSE o.remaining,
           last |-> DOMAIN headers,
           responses |-> Min(o.responses + 1, 2)]

----------------------------------------------------------------------------
(* Commit *)

FileColumns ==
    <<"sha", "filename", "status", "additions", "deletions", "changes",
      "blob_url", "raw_url", "contents_url">>

\* Commit.__files_to_df: pd.DataFrame(files), the columns are the keys seen
files_to_df(files) ==
    IF files = <<>>
    THEN EmptyFrame
    ELSE DataFrame(FileColumns \o (IF \E i \in 1..Len(files) : files[i].haspatch
                                   THEN <<"patch">> ELSE <<>>),
                   files)

\* Repository.url and the commit url built by the download loop, as the
\* segments url.split("/") gives
repository_url(owner, name) == <<"https:", "", "api.github.com", "repos", owner, name>>
commit_url(url, sha) == url \o <<"commits", sha>>

\* Commit.repository: self.url.split("/")[-3]
repository_owner(url) == url[Len(url) - 3]
repository(url) == url[Len(url) - 2]

\* Commit.save / save_async / get_file_path: data/<repository>/<sha>.parquet
file_path(url, sha) == <<"data", repository(url), sha, ".parquet">>

ArtifactPaths == {<<"data", n, s, ".parquet">> : n \in Names, s \in Shas}
NoArtifact == [exists |-> FALSE, complete |-> FALSE, table |-> EmptyFrame]
to_parquet(df) == [exists |-> TRUE, complete |-> TRUE, table |-> df]

\* df.to_parquet(file_path) writes to file_path itself: from the moment the
\* file is opened for writing until it is closed the path holds a file
\* without its footer
open_output == [exists |-> TRUE, complete |-> FALSE, table |-> EmptyFrame]

\* file_path.exists()
path_exists_never(path) == FALSE
path_exists(path) == artifacts[path].exists

\* "if not file_path.exists() or overwrite"
needs_save_always(exists, overwrite) == TRUE
needs_save(exists, overwrite) == ~exists \/ overwrite

\* the body of the detail response
Payload(sha, outcome) ==
    [has_files |-> outcome = "ok",
     files |-> IF outcome = "ok" THEN DetailFiles(sha) ELSE <<>>]

\* Commit.parse / parse_async after the fetch: self.files is self.data["files"]
parse(data) ==
    IF data.has_files
    THEN [raised |-> FALSE, changes |-> files_to_df(data.files)]
    ELSE [raised |-> TRUE, changes |-> EmptyFrame]

\* "if self.data is None: self.get_commit()" of parse and parse_async
needs_fetch(data) == ~data.cached

\* "if cache and self.data is None: self.data = ..." of get_commit and
\* get_commit_async
cache_data_always(cache, data, payload) == IF cache THEN payload ELSE data
cache_data(cache, data, payload) == IF cache /\ ~data.cached THEN payload ELSE data

\* Commit.get_file_path: the same expression as in save, with self.sha read
\* when it is called: data["sha"] once the detail is cached (the sha that was
\* requested; a payload without files has no sha either), else the sha given
get_file_path(url, sha, data) ==
    IF data.cached /\ ~data.has_files
    THEN [raised |-> TRUE, path |-> <<>>]
    ELSE [raised |-> FALSE, path |-> <<"data", repository(url), sha, ".parquet">>]

\* Download.directory = data_dir.joinpath(self.repo), and
\* directory.joinpath(sha + ".parquet")
directory(name) == <<"data", name>>
joinpath(dir, sha) == dir \o <<sha, ".parquet">>

----------------------------------------------------------------------------
(* Records of the state *)

NoDownload ==
    [made |-> FALSE, owner |-> "", repo |-> "", num_commits |-> 0, num_pages |-> 0,
     cached |-> FALSE, commits_df |-> EmptyFrame]
NoCall == [op |-> "", overwrite |-> FALSE, i |-> 0, saved_files |-> <<>>]
NoListing == [order |-> <<>>, pending |-> {}, got |-> <<>>]
NoData == [cached |-> FALSE, has_files |-> FALSE, files |-> <<>>]
NoChanges == [parsed |-> FALSE, df |-> EmptyFrame]
NoCommit ==
    [live |-> FALSE, url |-> <<>>, sha |-> "", file_path |-> <<>>,
     data |-> NoData, changes |-> NoChanges, awaiting |-> <<>>]
NoReturned == [set |-> FALSE, max_pages |-> 0, pages |-> {}, rows |-> <<>>]
NoGet ==
    [done |-> FALSE, op |-> "", cache |-> FALSE, requested |-> FALSE, arrived |-> FALSE,
     before |-> NoData, payload |-> NoData]
NoWriter ==
    [phase |-> "idle", mode |-> "", commits |-> EmptyFrame, new |-> EmptyFrame,
     seen |-> NoFile]
NoWriters == [of |-> [w \in 1..MaxWriters |-> NoWriter], overlapped |-> FALSE]
NoRet == [op |-> "", raised |-> FALSE, exc |-> "", value |-> <<>>]
Return(op, value) == [op |-> op, raised |-> FALSE, exc |-> "", value |-> value]
Raise(op, exc) == [op |-> op, raised |-> TRUE, exc |-> exc, value |-> <<>>]
NoSave ==
    [done |-> FALSE, sha |-> "", path |-> <<>>, existed |-> FALSE, overwrite |-> FALSE,
     before |-> NoArtifact, wrote |-> FALSE, requested |-> FALSE, returned |-> FALSE,
     value |-> <<>>]
NoMerge == [done |-> FALSE, before |-> NoFile, commits |-> EmptyFrame, raised |-> FALSE]
Disk == [dirs |-> dirs, artifacts |-> artifacts, index |-> index]
EmptyDisk ==
    [dirs |-> {}, artifacts |-> [p \in ArtifactPaths |-> NoArtifact],
     index |-> [n \in Names |-> NoFile]]
NoRun ==
    [op |-> "", overwrite |-> FALSE, detail |-> 0, missing |-> 0, reqexisting |-> FALSE, written |-> {},
     nofiles |-> {}, failed |-> {}, merged |-> 0, start |-> EmptyDisk, finished |-> 0,
     listed |-> FALSE, pages |-> {}, listreqs |-> 0, inflight |-> 0]
NoPrev == [set |-> FALSE, owner |-> "", repo |-> "", count |-> 0, disk |-> EmptyDisk]
NoFirst == [set |-> FALSE, owner |-> "", repo |-> "", disk |-> <<>>]
\* the command-line tool has not been started
NoCli == [pc |-> "off", owner |-> "", name |-> "", num_commits |-> 0, prompts |-> 0,
          text |-> <<>>, exc |-> "", passed |-> <<>>]
\* no get_commits_async call yet: no session handed over, none created
NoSession == [live |-> FALSE, given |-> FALSE, closed |-> FALSE, exit |-> ""]

----------------------------------------------------------------------------
(* GitHub.get / get_async on one object *)

\* GitHub.get: requests.get returns a response with `headers`
get(headers) ==
    /\ sent' = Send(token)
    /\ Observe(gh, observed, headers)
    /\ ret' = Return("get", <<>>)
    /\ UNCHANGED <<cli, session, firstRun, writers, lastGet, returned, token, remote, dirs,
                   artifacts, index, dl, pc, call, listing, commit, reqs, run, lastSave,
                   lastMerge, pre, prev, objects, calls>>

\* GitHub.get: requests.get raises
get_raise ==
    /\ sent' = Send(token)
    /\ ret' = Raise("get", "ConnectionError")
    /\ UNCHANGED <<cli, session, firstRun, writers, lastGet, returned, token, gh, observed,
                   remote, dirs, artifacts, index, dl, pc, call, listing, commit, reqs, run,
                   lastSave, lastMerge, pre, prev, objects, calls>>

\* GitHub.get_async up to "await session.get(...)"; several may be awaiting
\* on one object (the page requests of Repository.get_commits_async)
get_async_begin ==
    /\ gh.awaiting < MaxAwaiting
    /\ sent' = Send(token)
    /\ gh' = [gh EXCEPT !.awaiting = @ + 1]
    /\ UNCHANGED <<cli, session, firstRun, writers, lastGet, returned, token, observed,
                   remote, dirs, artifacts, index, dl, pc, call, listing, commit, ret, reqs,
                   run, lastSave, lastMerge, pre, prev, objects, calls>>

\* one awaited session.get completes with `headers`
get_async(headers) ==
    /\ gh.awaiting > 0
    /\ Observe([gh EXCEPT !.awaiting = @ - 1], observed, headers)
    /\ ret' = Return("get_async", <<>>)
    /\ UNCHANGED <<cli, session, firstRun, writers, lastGet, returned, token, sent, remote,
                   dirs, artifacts, index, dl, pc, call, listing, commit, reqs, run,
                   lastSave, lastMerge, pre, prev, objects, calls>>

\* one awaited session.get raises
get_async_raise ==
    /\ gh.awaiting > 0
    /\ gh' = [gh EXCEPT !.awaiting = @ - 1]
    /\ ret' = Raise("get_async", "ClientError")
    /\ UNCHANGED <<cli, session, firstRun, writers, lastGet, returned, token, sent,
                   observed, remote, dirs, artifacts, index, dl, pc, call, listing, commit,
                   reqs, run, lastSave, lastMerge, pre, prev, objects, calls>>

----------------------------------------------------------------------------
(* Commit.parse / parse_async on one object *)

FileRecords == {FileRecord(n, hp) : n \in {"a.py", "b.bin"}, hp \in BOOLEAN}
FileLists == SeqsUpTo(FileRecords, MaxFiles)

\* Commit(url, sha, auto_get=False)
Commit_init(sha) ==
    /\ commit' = [NoCommit EXCEPT
                    !.live = TRUE, !.sha = sha,
                    !.url = commit_url(repository_url("torvalds", "linux"), sha)]
    /\ ret' = Return("Commit", <<>>)
    /\ lastGet' = NoGet
    /\ UNCHANGED <<cli, session, firstRun, writers, returned, token, sent, gh, observed,
                   remote, dirs, artifacts, index, dl, pc, call, listing, reqs, run,
                   lastSave, lastMerge, pre, prev, objects, calls>>

\* parse / parse_async: "if self.data is None: self.get_commit()", the detail
\* request answered with `outcome` and the file list `files`; then
\* __files_to_df(self.files), cached in self.changes and returned
ParseCall(op, outcome, files) ==
    /\ sent' = IF needs_fetch(commit.data) THEN Send(token) ELSE sent
    /\ lastGet' = [done |-> TRUE, op |-> op, cache |-> TRUE,
                   requested |-> needs_fetch(commit.data),
                   arrived |-> needs_fetch(commit.data) /\ outcome # "error",
                   before |-> commit.data,
                   payload |-> IF needs_fetch(commit.data) /\ outcome # "error"
                               THEN [cached |-> TRUE, has_files |-> outcome = "ok",
                                     files |-> IF outcome = "ok" THEN files ELSE <<>>]
                               ELSE NoData]
    /\ IF needs_fetch(commit.data) /\ outcome = "error"
       THEN /\ commit' = commit
            /\ ret' = Raise(op, "ClientError")
       ELSE LET data == IF needs_fetch(commit.data)
                        THEN cache_data(TRUE, commit.data,
                                        [cached |-> TRUE, has_files |-> outcome = "ok",
                                         files |-> IF outcome = "ok" THEN files ELSE <<>>])
                        ELSE commit.data
                r == parse(data)
            IN /\ commit' = [commit EXCEPT
                               !.data = data,
                               !.changes = IF r.raised THEN @
                                           ELSE [parsed |-> TRUE, df |-> r.changes]]
               /\ ret' = IF r.raised THEN Raise(op, "KeyError")
                                     ELSE Return(op, r.changes)
    /\ UNCHANGED <<cli, session, firstRun, writers, returned, token, gh, observed, remote,
                   dirs, artifacts, index, dl, pc, call, listing, reqs, run, lastSave,
                   lastMerge, pre, prev, objects, calls>>

Commit_parse(outcome, files) ==
    /\ commit.live
    /\ ParseCall("parse", outcome, files)

Commit_parse_async(outcome, files) ==
    /\ commit.live
    /\ ParseCall("parse_async", outcome, files)

----------------------------------------------------------------------------
(* Commit.get_commit, parse and save, sync and async, on one object *)

\* resp.json() as self.data holds it
Data(sha, outcome) ==
    [cached |-> TRUE, has_files |-> Payload(sha, outcome).has_files,
     files |-> Payload(sha, outcome).files]

Got(op, cache, requested, outcome) ==
    [done |-> TRUE, op |-> op, cache |-> cache, requested |-> requested,
     arrived |-> outcome \in {"ok", "nofiles"}, before |-> commit.data,
     payload |-> IF outcome \in {"ok", "nofiles"} THEN Data(commit.sha, outcome)
                                                  ELSE NoData]

\* the object's state after "files_df = self.__files_to_df(self.files);
\* self.changes = files_df" on `data`, and after df.to_parquet(path) if `write`
ParseAndWrite(op, data, write, path) ==
    LET r == parse(data)
    IN /\ commit' = [commit EXCEPT
                       !.data = data,
                       !.file_path = IF path # <<>> THEN path ELSE @,
                       !.changes = IF r.raised THEN @ ELSE [parsed |-> TRUE, df |-> r.changes]]
       /\ artifacts' = IF write /\ ~r.raised
                       THEN [artifacts EXCEPT ![path] = to_parquet(r.changes)]
                       ELSE artifacts
       /\ ret' = IF r.raised THEN Raise(op, "KeyError")
                 ELSE IF write THEN Return(op, path)
                 ELSE Return(op, r.changes)

\* Commit.get_commit(cache): the request is made whatever self.data holds
Commit_get_commit(cache, outcome) ==
    /\ commit.live
    /\ sent' = Send(token)
    /\ lastGet' = Got("get_commit", cache, TRUE, outcome)
    /\ IF outcome = "error"
       THEN /\ commit' = commit
            /\ ret' = Raise("get_commit", "ConnectionError")
       ELSE /\ commit' = [commit EXCEPT
                            !.data = cache_data(cache, @, Data(commit.sha, outcome))]
            /\ ret' = Return("get_commit", Payload(commit.sha, outcome))
    /\ UNCHANGED <<cli, session, firstRun, writers, returned, token, gh, observed, remote,
                   dirs, artifacts, index, dl, pc, call, listing, reqs, run, lastSave,
                   lastMerge, pre, prev, objects, calls>>

\* a coroutine of the object reaches "await self.get_async(...)"
Await(op, cache, path) ==
    /\ Len(commit.awaiting) < MaxAwaiting
    /\ sent' = Send(token)
    /\ lastGet' = Got(op, cache, TRUE, "")
    /\ commit' = [commit EXCEPT
                    !.file_path = IF path # <<>> THEN path ELSE @,
                    !.awaiting = Append(@, [op |-> op, cache |-> cache, path |-> path])]
    /\ UNCHANGED <<cli, session, firstRun, artifacts, ret>>

\* Commit.get_commit_async(session, cache) up to its await
Commit_get_commit_async(cache) ==
    /\ commit.live
    /\ Await("get_commit_async", cache, <<>>)
    /\ UNCHANGED <<cli, session, firstRun, writers, returned, token, gh, observed, remote,
                   dirs, index, dl, pc, call, listing, reqs, run, lastSave, lastMerge, pre,
                   prev, objects, calls>>

\* Commit.parse_async(session): to the await of get_commit_async if
\* self.data is None, else to its return
Commit_parse_async_begin ==
    /\ commit.live
    /\ IF needs_fetch(commit.data)
       THEN Await("parse_async", TRUE, <<>>)
       ELSE /\ ParseAndWrite("parse_async", commit.data, FALSE, <<>>)
            /\ lastGet' = Got("parse_async", TRUE, FALSE, "")
            /\ sent' = sent
    /\ UNCHANGED <<cli, session, firstRun, writers, returned, token, gh, observed, remote,
                   dirs, index, dl, pc, call, listing, reqs, run, lastSave, lastMerge, pre,
                   prev, objects, calls>>

\* Commit.save(overwrite) and save_async(session, overwrite) up to the
\* request, if one is made: self.sha, the path, mkdir, "if not
\* file_path.exists() or overwrite", "if self.changes is None: self.parse()"
SaveCall(op, overwrite, outcome) ==
    LET p == get_file_path(commit.url, commit.sha, commit.data)
    IN IF p.raised
       THEN /\ ret' = Raise(op, "KeyError")
            /\ lastGet' = Got(op, TRUE, FALSE, "")
            /\ UNCHANGED <<commit, artifacts, dirs, sent>>
       ELSE /\ dirs' = dirs \cup {repository(commit.url)}
            /\ IF ~needs_save(path_exists(p.path), overwrite)
               THEN /\ commit' = [commit EXCEPT !.file_path = p.path]
                    /\ ret' = Return(op, p.path)
                    /\ lastGet' = Got(op, TRUE, FALSE, "")
                    /\ UNCHANGED <<artifacts, sent>>
               ELSE IF commit.changes.parsed
               THEN /\ commit' = [commit EXCEPT !.file_path = p.path]
                    /\ artifacts' = [artifacts EXCEPT ![p.path] = to_parquet(commit.changes.df)]
                    /\ ret' = Return(op, p.path)
                    /\ lastGet' = Got(op, TRUE, FALSE, "")
                    /\ sent' = sent
               ELSE IF ~needs_fetch(commit.data)
               THEN /\ ParseAndWrite(op, commit.data, TRUE, p.path)
                    /\ lastGet' = Got(op, TRUE, FALSE, "")
                    /\ sent' = sent
               ELSE IF op = "save_async"
               THEN Await(op, TRUE, p.path)
               ELSE /\ sent' = Send(token)
                    /\ lastGet' = Got(op, TRUE, TRUE, outcome)
                    /\ IF outcome = "error"
                       THEN /\ commit' = [commit EXCEPT !.file_path = p.path]
                            /\ ret' = Raise(op, "ConnectionError")
                            /\ artifacts' = artifacts
                       ELSE ParseAndWrite(op, cache_data(TRUE, commit.data,
                                                         Data(commit.sha, outcome)),
                                          TRUE, p.path)

Commit_save(overwrite, outcome) ==
    /\ commit.live
    /\ SaveCall("save", overwrite, outcome)
    /\ UNCHANGED <<cli, session, firstRun, writers, returned, token, gh, observed, remote,
                   index, dl, pc, call, listing, reqs, run, lastSave, lastMerge, pre, prev,
                   objects, calls>>

Commit_save_async_begin(overwrite) ==
    /\ commit.live
    /\ SaveCall("save_async", overwrite, "")
    /\ UNCHANGED <<cli, session, firstRun, writers, returned, token, gh, observed, remote,
                   index, dl, pc, call, listing, reqs, run, lastSave, lastMerge, pre, prev,
                   objects, calls>>

\* the awaited request of coroutine i completes with `outcome`, and the
\* coroutine runs to its return
Commit_resume(i, outcome) ==
    /\ commit.live
    /\ i \in 1..Len(commit.awaiting)
    /\ LET a == commit.awaiting[i]
           rest == SubSeq(commit.awaiting, 1, i - 1)
                     \o SubSeq(commit.awaiting, i + 1, Len(commit.awaiting))
           data == cache_data(a.cache, commit.data, Data(commit.sha, outcome))
       IN /\ lastGet' = Got(a.op, a.cache, FALSE, outcome)
          /\ IF outcome = "error"
             THEN /\ commit' = [commit EXCEPT !.awaiting = rest]
                  /\ ret' = Raise(a.op, "ClientError")
                  /\ artifacts' = artifacts
             ELSE IF a.op = "get_commit_async"
             THEN /\ commit' = [commit EXCEPT !.awaiting = rest, !.data = data]
                  /\ ret' = Return(a.op, Payload(commit.sha, outcome))
                  /\ artifacts' = artifacts
             ELSE LET r == parse(data)
                      write == a.op = "save_async" /\ ~r.raised
                  IN /\ commit' = [commit EXCEPT
                                     !.awaiting = rest,
                                     !.data = data,
                                     !.changes = IF r.raised THEN @
                                                 ELSE [parsed |-> TRUE, df |-> r.changes]]
                     /\ artifacts' = IF write
                                     THEN [artifacts EXCEPT ![a.path] = to_parquet(r.changes)]
                                     ELSE artifacts
                     /\ ret' = IF r.raised THEN Raise(a.op, "KeyError")
                               ELSE IF write THEN Return(a.op, a.path)
                               ELSE Return(a.op, r.changes)
    /\ UNCHANGED <<cli, session, firstRun, writers, returned, token, sent, gh, observed,
                   remote, dirs, index, dl, pc, call, listing, reqs, run, lastSave,
                   lastMerge, pre, prev, objects, calls>>

----------------------------------------------------------------------------
(* Download.__init__ *)

\* math.ceil(number_of_commits / 100)
num_pages_floor(number_of_commits) == number_of_commits \div PerPage
num_pages(number_of_commits) == (number_of_commits + PerPage - 1) \div PerPage

\* "if not self.repository.exists: raise" comes before "self.directory.mkdir"
init_dirs_early(status, name) == dirs \cup {name}
init_dirs(status, name) == IF status = 200 THEN dirs \cup {name} ELSE dirs

\* Download(owner, name, number_of_commits): Repository(owner, name), one
\* existence probe answered with `status`, then the data directory
Construct(owner, name, count, status) ==
    /\ pc = "idle"
    /\ objects < MaxObjects
    /\ objects' = objects + 1
    /\ pre' = Disk
    /\ reqs' = [probe |-> 1, list |-> 0, detail |-> 0]
    /\ dirs' = init_dirs(status, name)
    /\ IF status = 200
       THEN /\ dl' = [made |-> TRUE, owner |-> owner, repo |-> name,
                      num_commits |-> count, num_pages |-> num_pages(count),
                      cached |-> FALSE, commits_df |-> EmptyFrame]
            /\ ret' = Return("Download", directory(name))
       ELSE /\ dl' = NoDownload
            /\ ret' = Raise("Download", "RepositoryNotFoundError")
    /\ run' = NoRun
    /\ lastSave' = NoSave
    /\ lastMerge' = NoMerge
    /\ sent' = Send(token)
    /\ \E headers \in ApiHeaders : Observe(NewGitHub, NoObserved, headers)
    /\ cli' = IF cli.pc = "construct"
              THEN [cli EXCEPT !.pc = IF status = 200 THEN "download" ELSE "raised",
                               !.exc = IF status = 200 THEN "" ELSE "RepositoryNotFoundError",
                               !.passed = <<count>>]
              ELSE cli
    /\ UNCHANGED <<session, firstRun, writers, lastGet, returned, token, remote, artifacts,
                   index, pc, call, listing, commit, prev, calls>>

----------------------------------------------------------------------------
(* Repository.get_commits_async, as Download.get_commits_df(_async) calls it *)

Perms(n) == {o \in [1..n -> 1..n] : \A i, j \in 1..n : o[i] = o[j] => i = j}

\* "tasks = set() ... asyncio.gather(*tasks)": the coroutines are handed to
\* gather in the iteration order of a set of objects, which is any order
gather_orders(n) == Perms(n)

StartListing(op, overwrite) ==
    /\ pc' = "listing"
    /\ call' = [op |-> op, overwrite |-> overwrite, i |-> 0, saved_files |-> <<>>]
    /\ \E order \in gather_orders(dl.num_pages) :
          listing' = [order |-> order, pending |-> 1..dl.num_pages,
                      got |-> [p \in 1..dl.num_pages |-> <<>>]]

\* one page request completes: Repository.__get_commits_async
PageResponse(p) ==
    /\ pc = "listing"
    /\ p \in listing.pending
    /\ listing' = [listing EXCEPT !.pending = @ \ {p}, !.got[p] = Page(p)]
    /\ reqs' = [reqs EXCEPT !.list = @ + 1]
    /\ run' = [run EXCEPT !.pages = @ \cup {p}, !.listreqs = @ + 1]
    /\ sent' = Send(token)
    /\ \E headers \in ApiHeaders : Observe(gh, observed, headers)
    /\ UNCHANGED <<cli, session, firstRun, writers, lastGet, returned, token, remote, dirs,
                   artifacts, index, dl, pc, call, commit, ret, lastSave, lastMerge, pre,
                   prev, objects, calls>>

\* "[item for sublist in commits for item in sublist]", in gather's order
RECURSIVE flatten(_, _)
flatten(order, got) ==
    IF order = <<>> THEN <<>> ELSE got[Head(order)] \o flatten(Tail(order), got)

\* gather returns; flatten, convert, truncate to num_commits and cache
ListFinish ==
    /\ pc = "listing"
    /\ listing.pending = {}
    /\ LET df == iloc(convert_commits_to_df(flatten(listing.order, listing.got)),
                      dl.num_commits)
       IN /\ dl' = [dl EXCEPT !.cached = TRUE, !.commits_df = df]
          /\ IF call.op \in {"download_commits", "download_commits_async"}
             THEN /\ pc' = "loop"
                  /\ call' = [call EXCEPT !.i = 1]
                  /\ ret' = ret
             ELSE /\ pc' = "idle"
                  /\ call' = NoCall
                  /\ ret' = Return(call.op, <<>>)
    /\ listing' = NoListing
    /\ UNCHANGED <<cli, session, firstRun, writers, lastGet, returned, token, sent, gh,
                   observed, remote, dirs, artifacts, index, commit, reqs, run, lastSave,
                   lastMerge, pre, prev, objects, calls>>

\* a method of the object is called: what is remembered of the previous one
\* is dropped
StartCall ==
    /\ calls < MaxCalls
    /\ calls' = calls + 1
    /\ ret' = NoRet
    /\ pre' = EmptyDisk
    /\ lastSave' = NoSave
    /\ lastMerge' = NoMerge

\* Download.get_commits_df
get_commits_df ==
    /\ pc = "idle"
    /\ dl.made
    /\ StartCall
    /\ StartListing("get_commits_df", FALSE)
    /\ run' = [NoRun EXCEPT !.listed = TRUE]
    /\ UNCHANGED <<cli, session, firstRun, writers, lastGet, returned, token, sent, gh,
                   observed, remote, dirs, artifacts, index, dl, commit, reqs, prev,
                   objects>>

\* Download.get_commits_df_async
get_commits_df_async ==
    /\ pc = "idle"
    /\ dl.made
    /\ StartCall
    /\ StartListing("get_commits_df_async", FALSE)
    /\ run' = [NoRun EXCEPT !.listed = TRUE]
    /\ UNCHANGED <<cli, session, firstRun, writers, lastGet, returned, token, sent, gh,
                   observed, remote, dirs, artifacts, index, dl, commit, reqs, prev,
                   objects>>

----------------------------------------------------------------------------
(* Repository.get_commits and get_commits_async, called on the object itself *)

\* "range(1, max_pages + 1)" and "page 1, then range(2, max_pages + 1)"
range(first, last) == [i \in 1..(last - first + 1) |-> first + i - 1]

StartPages(op, max_pages, order) ==
    /\ pc = "idle"
    /\ StartCall
    /\ pc' = "listing"
    /\ call' = [op |-> op, overwrite |-> FALSE, i |-> 0, saved_files |-> <<>>]
    /\ listing' = [order |-> order, pending |-> Range(order),
                   got |-> [p \in Range(order) |-> <<>>]]
    /\ run' = NoRun
    /\ returned' = IF op = "get_commits"
                   THEN [returned EXCEPT !.sync = [NoReturned EXCEPT !.max_pages = max_pages]]
                   ELSE [returned EXCEPT !.async = [NoReturned EXCEPT !.max_pages = max_pages]]
    /\ UNCHANGED <<cli, firstRun, writers, lastGet, token, sent, gh, observed, remote, dirs,
                   artifacts, index, dl, commit, reqs, prev, objects>>

\* get_commits(max_pages) up to its first request: page 1 is asked for
\* whatever max_pages is, then the pages of range(2, max_pages + 1)
get_commits(max_pages) ==
    /\ max_pages >= 0
    /\ StartPages("get_commits", max_pages, <<1>> \o range(2, max_pages))
    /\ UNCHANGED session

\* the next request of get_commits completes: __get_commits, one page after another
get_commits_page ==
    /\ call.op = "get_commits"
    /\ listing.pending # {}
    /\ PageResponse(CHOOSE p \in listing.pending : \A q \in listing.pending : p <= q)

\* "__session_given = session is not None ... if session is None: session =
\* aiohttp.ClientSession()": the session the page requests go through, the
\* caller's open one or a new one
open_session(given) == [live |-> TRUE, given |-> given, closed |-> FALSE, exit |-> ""]

\* "if not __session_given and session.closed is False: await session.close()"
close_session(s) == IF ~s.given /\ ~s.closed THEN [s EXCEPT !.closed = TRUE] ELSE s

\* get_commits_async(max_pages) up to the await of gather: one coroutine for
\* each page of range(1, max_pages + 1), handed to gather in a set's order
get_commits_async(max_pages) ==
    /\ max_pages >= 0
    /\ \E order \in gather_orders(max_pages) :
          StartPages("get_commits_async", max_pages, order)
    /\ \E given \in BOOLEAN : session' = open_session(given)

\* one page request of get_commits_async completes
get_commits_async_page(p) ==
    /\ call.op = "get_commits_async"
    /\ PageResponse(p)

\* the pages are in: flatten in the order held, convert, return
ReturnPages(op) ==
    /\ pc = "listing"
    /\ call.op = op
    /\ listing.pending = {}
    /\ LET df == convert_commits_to_df(flatten(listing.order, listing.got))
           result(r) == [r EXCEPT !.set = TRUE, !.pages = run.pages, !.rows = df.rows]
       IN /\ ret' = Return(op, df)
          /\ returned' = IF op = "get_commits"
                         THEN [returned EXCEPT !.sync = result(@)]
                         ELSE [returned EXCEPT !.async = result(@)]
    /\ pc' = "idle"
    /\ call' = NoCall
    /\ listing' = NoListing
    /\ UNCHANGED <<cli, firstRun, writers, lastGet, token, sent, gh, observed, remote, dirs,
                   artifacts, index, dl, commit, reqs, run, lastSave, lastMerge, pre, prev,
                   objects, calls>>

get_commits_return ==
    /\ call.op = "get_commits"
    /\ ReturnPages("get_commits")
    /\ UNCHANGED session

\* gather has returned: the session is closed if the call created it, then
\* the pages are flattened and returned
get_commits_async_return ==
    /\ call.op = "get_commits_async"
    /\ ReturnPages("get_commits_async")
    /\ session' = [close_session(session) EXCEPT !.exit = "return"]

\* one page request of get_commits_async raises (session.get or resp.json):
\* gather(return_exceptions=False) hands the exception to the await at once,
\* and it leaves get_commits_async from there: the lines after the gather,
\* the close of the session among them, are not run
get_commits_async_raise(p) ==
    /\ pc = "listing"
    /\ call.op = "get_commits_async"
    /\ p \in listing.pending
    /\ sent' = Send(token)
    /\ reqs' = [reqs EXCEPT !.list = @ + 1]
    /\ run' = [run EXCEPT !.listreqs = @ + 1]
    /\ ret' = Raise("get_commits_async", "ClientError")
    /\ session' = [session EXCEPT !.exit = "raise"]
    /\ pc' = "idle"
    /\ call' = NoCall
    /\ listing' = NoListing
    /\ UNCHANGED <<cli, firstRun, writers, lastGet, returned, token, gh, observed, remote,
                   dirs, artifacts, index, dl, commit, lastSave, lastMerge, pre, prev,
                   objects, calls>>

----------------------------------------------------------------------------
(* Download.download_commits / download_commits_async *)

SameParams ==
    prev.set /\ prev.owner = dl.owner /\ prev.repo = dl.repo /\ prev.count = dl.num_commits

\* entry of both methods: "if self.commits_df is None: ... get_commits_df"
StartDownload(op, overwrite) ==
    /\ pc = "idle"
    /\ dl.made
    /\ StartCall
    /\ run' = [NoRun EXCEPT !.op = op, !.overwrite = overwrite, !.start = Disk,
                            !.listed = ~dl.cached]
    /\ prev' = IF overwrite \/ ~SameParams THEN NoPrev ELSE prev
    /\ IF dl.cached
       THEN /\ pc' = "loop"
            /\ call' = [op |-> op, overwrite |-> overwrite, i |-> 1, saved_files |-> <<>>]
            /\ listing' = listing
       ELSE StartListing(op, overwrite)
    /\ UNCHANGED <<cli, session, firstRun, writers, lastGet, returned, token, sent, gh,
                   observed, remote, dirs, artifacts, index, dl, commit, reqs, objects>>

download_commits(overwrite) ==
    /\ call.op = ""
    /\ StartDownload("download_commits", overwrite)

download_commits_async(overwrite) ==
    /\ call.op = ""
    /\ StartDownload("download_commits_async", overwrite)

\* how Commit.save / save_async ends for the loop: it returns the path, raises
\* the KeyError the loop catches, or raises something else
save_end(requested, outcome) ==
    IF ~requested THEN "return"
    ELSE IF outcome = "error" THEN "ClientError"
    ELSE IF parse(Payload("", outcome)).raised THEN "KeyError"
    ELSE "return"

\* The rest of one loop iteration once Commit.save knows whether it fetches:
\* the detail request and its outcome, parse, to_parquet, then
\* saved_files.append, or "except KeyError", or the exception leaving the loop.
\* With whole = FALSE the step ends inside to_parquet, the file open.
SaveStep(sha, path, requested, countMissing, outcome, whole) ==
    LET end == save_end(requested, outcome)
        wrote == requested /\ end = "return"
    IN /\ artifacts' = IF wrote
                       THEN [artifacts EXCEPT
                               ![path] = IF whole
                                         THEN to_parquet(parse(Payload(sha, outcome)).changes)
                                         ELSE open_output]
                       ELSE artifacts
       /\ reqs' = IF requested THEN [reqs EXCEPT !.detail = @ + 1] ELSE reqs
       /\ sent' = IF requested THEN Send(token) ELSE sent
       /\ lastSave' = [done |-> TRUE, sha |-> sha, path |-> path,
                       existed |-> artifacts[path].exists,
                       overwrite |-> call.overwrite, before |-> artifacts[path],
                       wrote |-> wrote, requested |-> requested,
                       returned |-> end = "return",
                       value |-> IF end = "return" THEN path ELSE <<>>]
       /\ run' = [run EXCEPT
                    !.detail = @ + (IF requested THEN 1 ELSE 0),
                    !.missing = @ + (IF countMissing /\ ~artifacts[path].exists
                                     THEN 1 ELSE 0),
                    !.reqexisting = @ \/ (requested /\ artifacts[path].exists),
                    !.written = IF wrote THEN @ \cup {sha} ELSE @,
                    !.nofiles = IF end = "KeyError" THEN @ \cup {sha} ELSE @,
                    !.failed = IF end = "ClientError" THEN @ \cup {sha} ELSE @,
                    !.finished = @ + (IF end = "ClientError" THEN 0 ELSE 1),
                    !.inflight = IF pc = "fetch" THEN @ - 1 ELSE @]
       /\ IF end = "ClientError"
          THEN /\ pc' = "idle"
               /\ call' = NoCall
               /\ ret' = Raise(call.op, "ClientError")
          ELSE IF wrote /\ ~whole
          THEN /\ pc' = "write"
               /\ call' = call
               /\ ret' = ret
          ELSE /\ pc' = "loop"
               /\ call' = [call EXCEPT
                             !.i = @ + 1,
                             !.saved_files = IF end = "return" THEN Append(@, path) ELSE @]
               /\ ret' = ret

FinishSave(sha, path, requested, countMissing, outcome) ==
    SaveStep(sha, path, requested, countMissing, outcome, TRUE)

\* one iteration of the loop of download_commits: Commit(url, sha,
\* auto_get=False).save(overwrite), the detail request answered with `outcome`
save(outcome) ==
    /\ pc = "loop"
    /\ call.op = "download_commits"
    /\ call.i <= Len(dl.commits_df.rows)
    /\ LET sha == dl.commits_df.rows[call.i].sha
           url == commit_url(repository_url(dl.owner, dl.repo), sha)
           path == file_path(url, sha)
           existed == path_exists(path)
       IN /\ dirs' = dirs \cup {repository(url)}
          /\ FinishSave(sha, path, needs_save(existed, call.overwrite), TRUE, outcome)
    /\ UNCHANGED <<cli, session, firstRun, writers, lastGet, returned, token, gh, observed,
                   remote, index, dl, listing, commit, lastMerge, pre, prev, objects,
                   calls>>

\* "filepath = await commit.save_async(...)": the loop body goes on, and the
\* next iteration starts, only when save_async has returned
awaited_eagerly(p) == p \in {"loop", "fetch"}
awaited(p) == p = "loop"

\* one iteration of the loop of download_commits_async, up to the await of
\* the detail request inside Commit.save_async (or to its return without one)
save_async_begin ==
    /\ awaited(pc)
    /\ call.op = "download_commits_async"
    /\ call.i <= Len(dl.commits_df.rows)
    /\ LET sha == dl.commits_df.rows[call.i].sha
           url == commit_url(repository_url(dl.owner, dl.repo), sha)
           path == file_path(url, sha)
           existed == path_exists(path)
       IN /\ dirs' = dirs \cup {repository(url)}
          /\ IF needs_save(existed, call.overwrite)
             THEN /\ pc' = "fetch"
                  /\ commit' = [NoCommit EXCEPT !.live = TRUE, !.url = url, !.sha = sha,
                                                !.file_path = path]
                  /\ run' = [run EXCEPT
                               !.missing = @ + (IF artifacts[path].exists THEN 0 ELSE 1),
                               !.inflight = @ + 1]
                  /\ UNCHANGED <<artifacts, reqs, sent, lastSave, call, ret>>
             ELSE /\ FinishSave(sha, path, FALSE, TRUE, "ok")
                  /\ commit' = commit
    /\ UNCHANGED <<cli, session, firstRun, writers, lastGet, returned, token, gh, observed,
                   remote, index, dl, listing, lastMerge, pre, prev, objects, calls>>

\* the detail request of save_async completes with `outcome`; the rest of
\* the iteration
save_async_resume(outcome) ==
    /\ pc = "fetch"
    /\ commit.live
    /\ FinishSave(commit.sha, commit.file_path, TRUE, FALSE, outcome)
    /\ commit' = NoCommit
    /\ UNCHANGED <<cli, session, firstRun, writers, lastGet, returned, token, gh, observed,
                   remote, dirs, index, dl, listing, lastMerge, pre, prev, objects, calls>>

\* the iteration of download_commits as save, ending with the file open
save_open(outcome) ==
    /\ pc = "loop"
    /\ call.op = "download_commits"
    /\ call.i <= Len(dl.commits_df.rows)
    /\ LET sha == dl.commits_df.rows[call.i].sha
           url == commit_url(repository_url(dl.owner, dl.repo), sha)
           path == file_path(url, sha)
           existed == path_exists(path)
       IN /\ dirs' = dirs \cup {repository(url)}
          /\ SaveStep(sha, path, needs_save(existed, call.overwrite), TRUE, outcome, FALSE)
    /\ UNCHANGED <<cli, session, firstRun, writers, lastGet, returned, token, gh, observed,
                   remote, index, dl, listing, commit, lastMerge, pre, prev, objects,
                   calls>>

\* the same for save_async after its detail request
save_async_open(outcome) ==
    /\ pc = "fetch"
    /\ commit.live
    /\ SaveStep(commit.sha, commit.file_path, TRUE, FALSE, outcome, FALSE)
    /\ commit' = NoCommit
    /\ UNCHANGED <<cli, session, firstRun, writers, lastGet, returned, token, gh, observed,
                   remote, dirs, index, dl, listing, lastMerge, pre, prev, objects, calls>>

\* to_parquet returns: the file is whole; "return file_path" and
\* saved_files.append(filepath)
to_parquet_close ==
    /\ pc = "write"
    /\ artifacts' = [artifacts EXCEPT
                       ![lastSave.path] =
                           to_parquet(parse(Payload(lastSave.sha, "ok")).changes)]
    /\ pc' = "loop"
    /\ call' = [call EXCEPT !.i = @ + 1, !.saved_files = Append(@, lastSave.path)]
    /\ UNCHANGED <<cli, session, firstRun, writers, lastGet, returned, token, sent, gh,
                   observed, remote, dirs, index, dl, listing, commit, ret, reqs, run,
                   lastSave, lastMerge, pre, prev, objects, calls>>

\* to_parquet does not return: the write is cut short by an exception (full
\* disk, interrupt) or by the end of the process. Nothing in save or in the
\* loop catches it or removes the file, which stays as far as it was written
to_parquet_raise ==
    /\ pc = "write"
    /\ pc' = "idle"
    /\ call' = NoCall
    /\ commit' = NoCommit
    /\ ret' = Raise(call.op, "OSError")
    /\ UNCHANGED <<cli, session, firstRun, writers, lastGet, returned, token, sent, gh,
                   observed, remote, dirs, artifacts, index, dl, listing, reqs, run,
                   lastSave, lastMerge, pre, prev, objects, calls>>

\* save_index(commits) as a step of the object: the file, the exception or the path
Merge(op, commits) ==
    LET r == save_index(index[dl.repo], commits)
    IN /\ index' = [index EXCEPT ![dl.repo] = r.file]
       /\ lastMerge' = [done |-> TRUE, before |-> index[dl.repo], commits |-> commits,
                        raised |-> r.raised]
       /\ ret' = IF r.raised THEN Raise(op, r.exc) ELSE Return(op, index_path(dl.repo))
       /\ firstRun' = IF r.raised \/ op = "save_index" \/ firstRun.set
                      THEN firstRun
                      ELSE [set |-> TRUE, owner |-> dl.owner, repo |-> dl.repo,
                            disk |-> [dirs |-> dirs, artifacts |-> artifacts,
                                      index |-> index']]
       /\ prev' = IF r.raised \/ op = "save_index" \/ prev.set
                  THEN prev
                  ELSE [set |-> TRUE, owner |-> dl.owner, repo |-> dl.repo,
                        count |-> dl.num_commits,
                        disk |-> [dirs |-> dirs, artifacts |-> artifacts, index |-> index']]

\* "for index, commit in self.commits_df.iterrows()" is exhausted
loop_done_always(i, df) == TRUE
loop_done(i, df) == i > Len(df.rows)

\* the loop of download_commits(_async) is over: "index_path =
\* self.save_index(self.commits_df); return index_path"
merge_index ==
    /\ pc = "loop"
    /\ loop_done(call.i, dl.commits_df)
    /\ Merge(call.op, dl.commits_df)
    /\ run' = [run EXCEPT !.merged = @ + 1]
    /\ pc' = "idle"
    /\ call' = NoCall
    /\ UNCHANGED <<cli, session, writers, lastGet, returned, token, sent, gh, observed,
                   remote, dirs, artifacts, dl, listing, commit, reqs, lastSave, pre,
                   objects, calls>>

\* Download.save_index called on its own with a commits table
SaveIndexCall(commits) ==
    /\ pc = "idle"
    /\ dl.made
    /\ Merge("save_index", commits)
    /\ UNCHANGED <<cli, session, writers, lastGet, returned, token, sent, gh, observed,
                   remote, dirs, artifacts, dl, pc, call, listing, commit, reqs, run,
                   lastSave, pre, objects, calls>>

----------------------------------------------------------------------------
(* Download.save_index of several Download objects of one repository, at the
   grain of the file system: the read of index.csv and the write to it *)

\* save_index of object w up to its to_csv: "if index_path.is_file():
\* index_df = self.get_index(); commits = commits.loc[...]"
save_index_read(w, commits) ==
    /\ pc = "idle"
    /\ dl.made
    /\ calls < MaxCalls
    /\ calls' = calls + 1
    /\ writers.of[w].phase = "idle"
    /\ LET file == index[dl.repo]
           rd == get_index(file)
           busy == \E v \in 1..MaxWriters : writers.of[v].phase = "read"
           fails == IF ~file.exists THEN ""
                    ELSE IF rd.raised THEN rd.exc
                    ELSE IF ~HasColumn(commits, "sha") \/ ~HasColumn(rd.df, "sha")
                    THEN "KeyError"
                    ELSE ""
       IN IF fails # ""
          THEN /\ ret' = Raise("save_index", fails)
               /\ writers' = writers
          ELSE /\ ret' = ret
               /\ writers' =
                     [of |-> [writers.of EXCEPT
                                ![w] = [phase |-> "read",
                                        mode |-> IF file.exists THEN "a" ELSE "w",
                                        commits |-> commits,
                                        new |-> IF file.exists
                                                THEN not_indexed(commits, rd.df)
                                                ELSE commits,
                                        seen |-> file]],
                      overlapped |-> writers.overlapped \/ busy]
    /\ UNCHANGED <<cli, session, firstRun, lastGet, returned, token, sent, gh, observed,
                   remote, dirs, artifacts, index, dl, pc, call, listing, commit, reqs, run,
                   lastSave, lastMerge, pre, prev, objects>>

\* commits.to_csv(index_path, mode="a", header=False) on the file as it is
\* now, or to_csv(index_path, mode="w", header=True); "return index_path"
save_index_write(w) ==
    /\ writers.of[w].phase = "read"
    /\ LET me == writers.of[w]
           file == index[dl.repo]
       IN /\ index' = [index EXCEPT
                         ![dl.repo] =
                            IF me.mode = "a"
                            THEN [exists |-> TRUE, header |-> file.header,
                                  rows |-> file.rows \o to_csv_rows(me.new)]
                            ELSE [exists |-> TRUE, header |-> me.new.columns,
                                  rows |-> to_csv_rows(me.new)]]
          /\ lastMerge' = [done |-> TRUE, before |-> file, commits |-> me.commits,
                           raised |-> FALSE]
          /\ writers' = [writers EXCEPT !.of[w].phase = "idle"]
    /\ ret' = Return("save_index", index_path(dl.repo))
    /\ UNCHANGED <<cli, session, firstRun, lastGet, returned, token, sent, gh, observed,
                   remote, dirs, artifacts, dl, pc, call, listing, commit, reqs, run,
                   lastSave, pre, prev, objects, calls>>

----------------------------------------------------------------------------
(* scripts/Downloader.py: main, up to the construction of the Download *)

\* what can be typed at a prompt: a line of up to MaxInput digits and signs
\* (the empty line and the lines with a sign out of place among them), or a word
Digits == {"0", "4"}
Chars == Digits \cup {"-"}
Words == {<<"x">>, <<"4", "x">>}
Lines == SeqsUpTo(Chars, MaxInput) \cup Words

digit(c) == CASE c = "0" -> 0 [] c = "4" -> 4

RECURSIVE decimal(_)
decimal(ds) ==
    IF ds = <<>> THEN 0
    ELSE 10 * decimal(SubSeq(ds, 1, Len(ds) - 1)) + digit(ds[Len(ds)])

\* int(text) of a typed line: an optional sign and one or more decimal
\* digits give the integer (of any size), anything else raises ValueError
int_input(text) ==
    LET signed == text # <<>> /\ text[1] = "-"
        ds == IF signed THEN Tail(text) ELSE text
    IN IF ds # <<>> /\ \A i \in 1..Len(ds) : ds[i] \in Digits
       THEN [raised |-> FALSE, value |-> IF signed THEN 0 - decimal(ds) ELSE decimal(ds)]
       ELSE [raised |-> TRUE, value |-> 0]

\* "if num_commits > 4000: num_commits = 4000"
Limit == 4000
clamp_none(n) == n
clamp(n) == IF n > Limit THEN Limit ELSE n

\* main starts: the banner, "repo_valid = False"
main ==
    /\ cli.pc = "off"
    /\ cli' = [NoCli EXCEPT !.pc = "repo"]
    /\ UNCHANGED <<session, firstRun, writers, lastGet, returned, token, sent, gh, observed,
                   remote, dirs, artifacts, index, dl, pc, call, listing, commit, ret, reqs,
                   run, lastSave, lastMerge, pre, prev, objects, calls>>

\* one round of "while not repo_valid": owner and name are read and
\* Repository(owner, name).exists probes the remote, answered with `status`;
\* on 200 the loop ends and "num_commits = -1" opens the count loop
main_repository(owner, name, status) ==
    /\ cli.pc = "repo"
    /\ cli' = [cli EXCEPT !.owner = owner, !.name = name,
                          !.pc = IF status = 200 THEN "count" ELSE "repo",
                          !.num_commits = IF status = 200 THEN 0 - 1 ELSE @]
    /\ sent' = Send(token)
    /\ \E headers \in ApiHeaders : Observe(NewGitHub, NoObserved, headers)
    /\ UNCHANGED <<session, firstRun, writers, lastGet, returned, token, remote, dirs,
                   artifacts, index, dl, pc, call, listing, commit, ret, reqs, run,
                   lastSave, lastMerge, pre, prev, objects, calls>>

\* one round of "while num_commits < 0": a line is read; int() of it is
\* assigned, or raises ValueError, which is caught and leaves num_commits as
\* it was; a negative value is reported, a value above 4000 is replaced by
\* 4000; the loop goes round again while num_commits < 0
main_count(text) ==
    /\ cli.pc = "count"
    /\ cli.prompts < MaxPrompts
    /\ LET read == int_input(text)
           num_commits == clamp(IF read.raised THEN cli.num_commits ELSE read.value)
       IN cli' = [cli EXCEPT !.text = text, !.prompts = @ + 1,
                             !.num_commits = num_commits,
                             !.pc = IF num_commits < 0 THEN "count" ELSE "construct"]
    /\ UNCHANGED <<session, firstRun, writers, lastGet, returned, token, sent, gh, observed,
                   remote, dirs, artifacts, index, dl, pc, call, listing, commit, ret, reqs,
                   run, lastSave, lastMerge, pre, prev, objects, calls>>

\* input() finds the standard input at its end: EOFError, which nothing
\* catches, ends the program
main_count_eof ==
    /\ cli.pc = "count"
    /\ cli' = [cli EXCEPT !.pc = "raised", !.exc = "EOFError"]
    /\ UNCHANGED <<session, firstRun, writers, lastGet, returned, token, sent, gh, observed,
                   remote, dirs, artifacts, index, dl, pc, call, listing, commit, ret, reqs,
                   run, lastSave, lastMerge, pre, prev, objects, calls>>

\* "downloader = Download(owner=owner, name=name, number_of_commits=num_commits)"
main_Download ==
    /\ cli.pc = "construct"
    /\ \E status \in ProbeStatus : Construct(cli.owner, cli.name, cli.num_commits, status)

----------------------------------------------------------------------------
(* Specifications *)

Histories(longest) == {SubSeq(ShaNames, 1, n) : n \in 0..longest}

InitDisk(longest) ==
    /\ remote \in Histories(longest)
    /\ dirs = {}
    /\ artifacts = [p \in ArtifactPaths |-> NoArtifact]
    /\ index = [n \in Names |-> NoFile]
    /\ dl = NoDownload
    /\ pc = "idle"
    /\ call = NoCall
    /\ listing = NoListing
    /\ commit = NoCommit
    /\ ret = NoRet
    /\ reqs = [probe |-> 0, list |-> 0, detail |-> 0]
    /\ run = NoRun
    /\ lastSave = NoSave
    /\ lastMerge = NoMerge
    /\ pre = EmptyDisk
    /\ prev = NoPrev
    /\ objects = 0
    /\ calls = 0
    /\ gh = NewGitHub
    /\ observed = NoObserved
    /\ token \in Tokens
    /\ sent = NoSent
    /\ cli = NoCli
    /\ session = NoSession
    /\ firstRun = NoFirst
    /\ writers = NoWriters
    /\ lastGet = NoGet
    /\ returned = [sync |-> NoReturned, async |-> NoReturned]

Step(largest) ==
    \/ \E o \in Owners, n \in Names, c \in 0..largest, st \in ProbeStatus :
          Construct(o, n, c, st)
    \/ get_commits_df
    \/ get_commits_df_async
    \/ \E p \in 1..num_pages(largest) : PageResponse(p)
    \/ ListFinish
    \/ \E ow \in BOOLEAN : download_commits(ow)
    \/ \E ow \in BOOLEAN : download_commits_async(ow)
    \/ \E out \in Outcomes : save(out)
    \/ save_async_begin
    \/ \E out \in Outcomes : save_async_resume(out)
    \/ merge_index

Init == InitDisk(MaxHistory)
Next == Step(MaxCount)

\* the download pipeline: Download objects constructed and used one after another
Spec == Init /\ [][Next]_vars

\* the same with listings of more than one page
InitPaged == InitDisk(PagedHistory)
NextPaged == Step(PagedCount)
SpecPaged == InitPaged /\ [][NextPaged]_vars

\* the listing alone: Download objects of up to two pages and a record, over
\* histories that end before, at and after the last page asked for
ListCount == 2 * PerPage + 1
NextListing ==
    \/ \E o \in Owners, n \in Names, c \in 0..ListCount, st \in ProbeStatus :
          Construct(o, n, c, st)
    \/ get_commits_df
    \/ get_commits_df_async
    \/ \E p \in 1..num_pages(ListCount) : PageResponse(p)
    \/ ListFinish
SpecListing == InitPaged /\ [][NextListing]_vars

\* one Repository object: get_commits and get_commits_async called with the
\* same max_pages, in either order, over the same history
NextRepository ==
    \/ \E n \in 0..MaxPages : get_commits(n)
    \/ get_commits_page
    \/ get_commits_return
    \/ \E n \in 0..MaxPages : get_commits_async(n)
    \/ \E p \in 1..MaxPages : get_commits_async_page(p)
    \/ get_commits_async_return
    \/ \E p \in 1..MaxPages : get_commits_async_raise(p)
SpecRepository == InitPaged /\ [][NextRepository]_vars

\* the command-line tool alone, from its start to the Download it constructs
NextCli ==
    \/ main
    \/ \E o \in Owners, n \in Names, st \in ProbeStatus : main_repository(o, n, st)
    \/ \E text \in Lines : main_count(text)
    \/ main_count_eof
    \/ main_Download
InitCli == InitDisk(0) /\ token = NoToken
SpecCli == InitCli /\ [][NextCli]_vars

\* one GitHub object and its requests alone
NextRate ==
    \/ \E headers \in AnyHeaders : get(headers)
    \/ get_raise
    \/ get_async_begin
    \/ \E headers \in AnyHeaders : get_async(headers)
    \/ get_async_raise
SpecRate == Init /\ [][NextRate]_vars

\* one Commit object and its parse calls alone
NextParse ==
    \/ \E sha \in {"c1", "c2"} : Commit_init(sha)
    \/ \E out \in Outcomes, files \in FileLists : Commit_parse(out, files)
    \/ \E out \in Outcomes, files \in FileLists : Commit_parse_async(out, files)
SpecParse == Init /\ [][NextParse]_vars

\* one Commit object and all its methods, the async ones overlapping
NextCommit ==
    \/ \E sha \in {"c1", "c2"} : Commit_init(sha)
    \/ \E cache \in BOOLEAN, out \in Outcomes : Commit_get_commit(cache, out)
    \/ \E cache \in BOOLEAN : Commit_get_commit_async(cache)
    \/ \E out \in Outcomes : Commit_parse(out, DetailFiles(commit.sha))
    \/ Commit_parse_async_begin
    \/ \E ow \in BOOLEAN, out \in Outcomes : Commit_save(ow, out)
    \/ \E ow \in BOOLEAN : Commit_save_async_begin(ow)
    \/ \E i \in 1..MaxAwaiting, out \in Outcomes : Commit_resume(i, out)
InitCommit == InitDisk(0) /\ token = <<"ghp_1">>
SpecCommit == InitCommit /\ [][NextCommit]_vars

\* the same pipeline with the artifact write at the grain of the file system:
\* what is at the artifact path while to_parquet runs
NextWrite ==
    \/ \E o \in Owners, n \in Names, c \in 0..MaxCount, st \in ProbeStatus :
          Construct(o, n, c, st)
    \/ get_commits_df
    \/ get_commits_df_async
    \/ \E p \in 1..num_pages(MaxCount) : PageResponse(p)
    \/ ListFinish
    \/ \E ow \in BOOLEAN : download_commits(ow)
    \/ \E ow \in BOOLEAN : download_commits_async(ow)
    \/ \E out \in Outcomes : save_open(out)
    \/ save_async_begin
    \/ \E out \in Outcomes : save_async_open(out)
    \/ to_parquet_close
    \/ merge_index
SpecWrite == Init /\ [][NextWrite]_vars

\* the pipeline run for two repositories of one name: torvalds/linux and a
\* fork of it, which lists the same commits
ForkOwners == Owners \cup {"mirror"}
NextFork ==
    \/ \E o \in ForkOwners, n \in Names, c \in 0..MaxCount, st \in ProbeStatus :
          Construct(o, n, c, st)
    \/ get_commits_df
    \/ get_commits_df_async
    \/ \E p \in 1..num_pages(MaxCount) : PageResponse(p)
    \/ ListFinish
    \/ \E ow \in BOOLEAN : download_commits(ow)
    \/ \E ow \in BOOLEAN : download_commits_async(ow)
    \/ \E out \in Outcomes : save(out)
    \/ save_async_begin
    \/ \E out \in Outcomes : save_async_resume(out)
    \/ merge_index
SpecFork == Init /\ [][NextFork]_vars

\* the same, with writes that are cut short
NextInterrupted ==
    \/ NextWrite
    \/ to_parquet_raise
SpecInterrupted == Init /\ [][NextInterrupted]_vars

\* the index store alone: one Download of torvalds/linux, no index file yet,
\* and save_index called with any commits table
IndexShas == {"c1", "c2"}
IndexEntries == [sha : IndexShas, meta : Metas]
IndexTables ==
    {convert_commits_to_df(rows) : rows \in SeqsUpTo(IndexEntries, MaxEntries)}
        \cup {DataFrame(CommitColumns, <<>>)}

InitIndex ==
    /\ remote = <<>>
    /\ dirs = {"linux"}
    /\ artifacts = [p \in ArtifactPaths |-> NoArtifact]
    /\ index = [n \in Names |-> NoFile]
    /\ dl = [made |-> TRUE, owner |-> "torvalds", repo |-> "linux", num_commits |-> 0,
             num_pages |-> 0, cached |-> FALSE, commits_df |-> EmptyFrame]
    /\ pc = "idle"
    /\ call = NoCall
    /\ listing = NoListing
    /\ commit = NoCommit
    /\ ret = Return("Download", <<"data", "linux">>)
    /\ reqs = [probe |-> 1, list |-> 0, detail |-> 0]
    /\ run = NoRun
    /\ lastSave = NoSave
    /\ lastMerge = NoMerge
    /\ pre = EmptyDisk
    /\ prev = NoPrev
    /\ objects = 1
    /\ calls = 0
    /\ gh = observe(NewGitHub, CHOOSE h \in ApiHeaders : TRUE)
    /\ observed = [limit |-> "60", remaining |-> "0", last |-> HeaderNames, responses |-> 1]
    /\ token = NoToken
    /\ sent = Send(token)
    /\ cli = NoCli
    /\ session = NoSession
    /\ firstRun = NoFirst
    /\ writers = NoWriters
    /\ lastGet = NoGet
    /\ returned = [sync |-> NoReturned, async |-> NoReturned]

NextIndex == \E commits \in IndexTables : SaveIndexCall(commits)

SpecIndex == InitIndex /\ [][NextIndex]_vars

\* several Download objects of the repository call save_index, their reads
\* and writes interleaved; the tables have one row for a sha (the listing of
\* a repository), and the index is absent or was left by one earlier call
Unique(rows) == \A i, j \in 1..Len(rows) : rows[i].sha = rows[j].sha => i = j
RaceTables ==
    {t \in IndexTables : Unique(t.rows) /\ \A i \in 1..Len(t.rows) : t.rows[i].meta = 0}
InitRace ==
    /\ remote = <<>>
    /\ dirs = {"linux"}
    /\ artifacts = [p \in ArtifactPaths |-> NoArtifact]
    /\ \E f \in {NoFile} \cup {save_index(NoFile, t).file : t \in RaceTables} :
          index = [n \in Names |-> f]
    /\ dl = [made |-> TRUE, owner |-> "torvalds", repo |-> "linux", num_commits |-> 0,
             num_pages |-> 0, cached |-> FALSE, commits_df |-> EmptyFrame]
    /\ pc = "idle"
    /\ call = NoCall
    /\ listing = NoListing
    /\ commit = NoCommit
    /\ ret = Return("Download", <<"data", "linux">>)
    /\ reqs = [probe |-> 1, list |-> 0, detail |-> 0]
    /\ run = NoRun
    /\ lastSave = NoSave
    /\ lastMerge = NoMerge
    /\ pre = EmptyDisk
    /\ prev = NoPrev
    /\ objects = 1
    /\ calls = 0
    /\ gh = observe(NewGitHub, CHOOSE h \in ApiHeaders : TRUE)
    /\ observed = [limit |-> "60", remaining |-> "0", last |-> HeaderNames, responses |-> 1]
    /\ token = NoToken
    /\ sent = Send(token)
    /\ cli = NoCli
    /\ session = NoSession
    /\ firstRun = NoFirst
    /\ writers = NoWriters
    /\ lastGet = NoGet
    /\ returned = [sync |-> NoReturned, async |-> NoReturned]
NextRace ==
    \/ \E w \in 1..MaxWriters, commits \in RaceTables : save_index_read(w, commits)
    \/ \E w \in 1..MaxWriters : save_index_write(w)
SpecRace == InitRace /\ [][NextRace]_vars

----------------------------------------------------------------------------
(* Properties *)

IndexRows == index[dl.repo].rows
ShasOf(rows) == {rows[i].sha : i \in 1..Len(rows)}
DownloadOps == {"download_commits", "download_commits_async"}
RunEnded == run.op \in DownloadOps /\ pc = "idle"

\* C1: when the artifact of a commit already exists at its path and overwrite
\* is false, Commit.save / save_async writes nothing (the artifact is the one
\* that was there), issues no request, and returns data/<repo>/<sha>.parquet;
\* the commit has exactly one artifact
C1_IdempotentPersist ==
    (lastSave.done /\ lastSave.existed /\ ~lastSave.overwrite) =>
        /\ ~lastSave.wrote
        /\ artifacts[lastSave.path] = lastSave.before
        /\ lastSave.returned
        /\ lastSave.value = <<"data", dl.repo, lastSave.sha, ".parquet">>
        /\ Cardinality({p \in ArtifactPaths :
                          p[3] = lastSave.sha /\ artifacts[p].exists}) = 1

\* a second call of download_commits(overwrite=False) reached a commit whose
\* artifact an earlier call had written
C1_Witness ==
    /\ lastSave.done /\ lastSave.existed /\ ~lastSave.overwrite /\ lastSave.returned
    /\ calls = 2

\* C2: after any sequence of save_index calls, starting without an index
\* file, no two rows of index.csv share a sha
C2_IndexUnique ==
    \A i, j \in 1..Len(IndexRows) : IndexRows[i].sha = IndexRows[j].sha => i = j

\* C3: a save_index call that returns leaves the rows stored before it
\* unchanged and in place, followed by exactly the rows of the commits table
\* whose sha was not stored, in the table's order; one that raises leaves the
\* file as it was
C3_AppendOnly ==
    lastMerge.done =>
        LET old == lastMerge.before.rows
            fresh == SelectSeq(lastMerge.commits.rows,
                               LAMBDA r : r.sha \notin ShasOf(old))
        IN IF lastMerge.raised
           THEN index[dl.repo] = lastMerge.before
           ELSE /\ Len(IndexRows) = Len(old) + Len(fresh)
                /\ SubSeq(IndexRows, 1, Len(old)) = old
                /\ \A k \in 1..Len(fresh) :
                      /\ IndexRows[Len(old) + k].sha = fresh[k].sha
                      /\ IndexRows[Len(old) + k].meta = <<"str", fresh[k].meta>>

\* a merge into a non-empty index of a table that holds a stored sha (with
\* other contents) and a new one
C3_Witness ==
    /\ lastMerge.done /\ ~lastMerge.raised
    /\ Len(lastMerge.before.rows) > 0
    /\ Len(IndexRows) > Len(lastMerge.before.rows)
    /\ \E i \in 1..Len(lastMerge.commits.rows), j \in 1..Len(lastMerge.before.rows) :
          /\ lastMerge.commits.rows[i].sha = lastMerge.before.rows[j].sha
          /\ <<"str", lastMerge.commits.rows[i].meta>> # lastMerge.before.rows[j].meta

\* C4: after a save_index call that returns, the shas of the index are those
\* stored before together with those of the commits table
C4_IndexUnion ==
    (lastMerge.done /\ ~lastMerge.raised) =>
        ShasOf(IndexRows) = ShasOf(lastMerge.before.rows) \cup ShasOf(lastMerge.commits.rows)

\* merging a table with c2 and c1 into an index that held c1 gave {c1, c2}
C4_Witness ==
    /\ lastMerge.done /\ ~lastMerge.raised
    /\ ShasOf(lastMerge.before.rows) = {"c1"}
    /\ ShasOf(lastMerge.commits.rows) = {"c1", "c2"}
    /\ ShasOf(IndexRows) = {"c1", "c2"}

\* C5: the cached commits_df is the first num_commits records of the remote
\* history, in the remote's order
C5_Truncation ==
    (dl.made /\ dl.cached) =>
        dl.commits_df.rows = SubSeq(RemoteRecords, 1, Min(dl.num_commits, Len(remote)))

\* C6: a run in which a detail payload lacked the files key wrote no artifact
\* for that commit, and ends by merging the index once and returning its path
C6_SkipOnEmptyCommit ==
    (run.nofiles # {}) =>
        /\ run.nofiles \cap run.written = {}
        /\ RunEnded => (~ret.raised /\ ret.value = index_path(dl.repo) /\ run.merged = 1)

\* C7: a run in which the detail request of a commit failed is not aborted:
\* it ends by merging the index once and returning its path
C7_FailureIsolation ==
    (run.failed # {} /\ RunEnded) => (~ret.raised /\ run.merged = 1)

\* C8: a constructor that raised did so with RepositoryNotFoundError after
\* one probe request, no listing or detail request, and left data/ untouched
C8_ValidationFirst ==
    (ret.op = "Download" /\ ret.raised) =>
        /\ ret.exc = "RepositoryNotFoundError"
        /\ reqs = [probe |-> 1, list |-> 0, detail |-> 0]
        /\ Disk = pre
        /\ ~dl.made

\* the probe of the first Download was answered 404: no data/linux directory
C8_Witness == ret.op = "Download" /\ ret.raised /\ dirs = {}

\* C9: in a run with overwrite false no detail request is issued for a commit
\* whose artifact exists, and the detail requests are as many as the commits
\* reached without an artifact
C9_CheapRerun ==
    (run.op \in DownloadOps /\ ~run.overwrite) =>
        /\ ~run.reqexisting
        /\ run.detail + (IF pc = "fetch" THEN 1 ELSE 0) = run.missing

\* a finished run that found some artifacts present and fetched the others
C9_Witness ==
    /\ RunEnded /\ ~run.overwrite /\ run.merged = 1
    /\ run.detail >= 1
    /\ run.detail < Len(dl.commits_df.rows)

\* C10: as long as only runs with the same owner, repository and
\* number_of_commits and overwrite false follow a successful run, the index
\* file and the artifacts that run left are as it left them
C10_IdempotentRun ==
    prev.set =>
        /\ index = prev.disk.index
        /\ \A p \in ArtifactPaths :
              prev.disk.artifacts[p].exists => artifacts[p] = prev.disk.artifacts[p]

\* the commits a run is asked for: the first num_commits of the remote history
TargetShas == ShasOf(SubSeq(RemoteRecords, 1, Min(dl.num_commits, Len(remote))))
Persisted(arts) == {p[3] : p \in {q \in ArtifactPaths : arts[q].exists}}

\* C11: a run that returns, by download_commits or by download_commits_async,
\* leaves a result that is the same function of the directory it started
\* from, the remote history, number_of_commits and the remote's answers: the
\* index holds the shas stored at the start and those of the first
\* num_commits commits, the artifacts are those present at the start and those
\* of the first num_commits commits whose detail had a file list
C11_PathEquivalence ==
    (RunEnded /\ ~ret.raised) =>
        /\ ShasOf(IndexRows) = ShasOf(run.start.index[dl.repo].rows) \cup TargetShas
        /\ Persisted(artifacts) =
              Persisted(run.start.artifacts) \cup (TargetShas \ run.nofiles)

\* C12: whenever a file is found at an artifact path, it is a completely
\* written change table
C12_AllOrNothing ==
    \A p \in ArtifactPaths : artifacts[p].exists => artifacts[p].complete

Ceil(n) == CHOOSE k \in 0..n : k * PerPage >= n /\ (k = 0 \/ (k - 1) * PerPage < n)

\* C14: a Download of number_of_commits n has num_pages = ceil(n / page size);
\* a listing it makes requests pages 1..num_pages and no other, each once
C14_PageCount ==
    dl.made =>
        /\ dl.num_pages = Ceil(dl.num_commits)
        /\ run.listed =>
              /\ run.pages \subseteq 1..Ceil(dl.num_commits)
              /\ run.listreqs = Cardinality(run.pages)
              /\ (pc # "listing") => run.pages = 1..Ceil(dl.num_commits)

\* a finished listing for one record more than a page: pages 1 and 2
C14_Witness ==
    /\ dl.made /\ run.listed /\ pc = "idle"
    /\ dl.num_commits = PerPage + 1
    /\ run.pages = {1, 2} /\ run.listreqs = 2

C16_RateTracker ==
    /\ gh.ratelimit_limit = IF observed.limit = "" THEN -1 ELSE int(observed.limit)
    /\ gh.ratelimit_remaining =
          IF observed.remaining = "" THEN -1 ELSE int(observed.remaining)
    /\ (ret.op \in {"get", "get_async"} /\ ret.raised) =>
          ret.exc \in {"ConnectionError", "ClientError"}

\* after a response with both headers, one without any left both counters
C16_Witness ==
    /\ observed.responses = 2 /\ observed.last = {}
    /\ ret.op = "get_async" /\ ~ret.raised
    /\ gh.ratelimit_limit = 5000 /\ gh.ratelimit_remaining = 60

\* the change table's columns as the specification fixes them
Schema ==
    <<"sha", "filename", "status", "additions", "deletions", "changes",
      "blob_url", "raw_url", "contents_url", "patch">>
Parsed == ret.op \in {"parse", "parse_async"} /\ ~ret.raised

\* C17: parse of a commit whose file list is empty returns a table of no
\* rows with the ten columns of the schema
C17_SchemaStable ==
    (Parsed /\ commit.data.files = <<>>) =>
        /\ ret.value.rows = <<>>
        /\ ret.value.columns = Schema

\* C18: parse and parse_async return, for every file list, a table with the
\* ten columns of the schema in order and one row per file record in the
\* list's order
C18_ColumnOrder ==
    Parsed =>
        /\ ret.value.columns = Schema
        /\ Len(ret.value.rows) = Len(commit.data.files)
        /\ \A i \in 1..Len(commit.data.files) :
              ret.value.rows[i].filename = commit.data.files[i].filename

\* C19: a run that returns, started on a directory whose index held exactly
\* the shas of its artifacts, leaves a directory whose index holds exactly the
\* shas of its artifacts
C19_IndexUpToDate ==
    (/\ RunEnded /\ ~ret.raised
     /\ ShasOf(run.start.index[dl.repo].rows) = Persisted(run.start.artifacts)) =>
        ShasOf(IndexRows) = Persisted(artifacts)

\* C20: the path Commit.save / save_async checks and writes, the path
\* get_file_path returns (before and after the detail is cached) and
\* Download.directory/<sha>.parquet are one function of repository name and
\* sha, data/<name>/<sha>.parquet; every artifact a run wrote is found at
\* Download.directory/<sha>.parquet
C20_DeterministicPath ==
    /\ \A o \in Owners, n \in Names, s \in Shas :
          LET url == commit_url(repository_url(o, n), s)
              there == [raised |-> FALSE, path |-> joinpath(directory(n), s)]
          IN /\ file_path(url, s) = joinpath(directory(n), s)
             /\ get_file_path(url, s, NoData) = there
             /\ get_file_path(url, s, [cached |-> TRUE, has_files |-> TRUE,
                                       files |-> DetailFiles(s)]) = there
    /\ lastSave.done =>
          /\ lastSave.path = joinpath(directory(dl.repo), lastSave.sha)
          /\ lastSave.returned => lastSave.value = lastSave.path
    /\ (pc = "fetch") => commit.file_path = joinpath(directory(dl.repo), commit.sha)
    /\ (run.op \in DownloadOps) =>
          \A s \in run.written : artifacts[joinpath(directory(dl.repo), s)].exists

\* a finished run of download_commits_async that wrote an artifact
C20_Witness ==
    /\ RunEnded /\ run.op = "download_commits_async" /\ ~ret.raised
    /\ run.written # {}
    /\ lastSave.returned


\* C21: the headers of every request an object issues carry Accept:
\* application/vnd.github+json, and carry Authorization exactly when GH_TOKEN
\* holds a non-empty text, its value then being "token " and that text
C21_RequestHeaders ==
    sent.issued =>
       /\ "Accept" \in DOMAIN sent.headers
       /\ sent.headers["Accept"] = "application/vnd.github+json"
       /\ "Authorization" \in DOMAIN sent.headers <=> (token # NoToken /\ token # <<"">>)
       /\ "Authorization" \in DOMAIN sent.headers =>
             sent.headers["Authorization"] = <<"token ", token[1]>>
\* a detail request went out with the credential
C21_Witness ==
    /\ sent.issued
    /\ reqs.detail > 0
    /\ "Authorization" \in DOMAIN sent.headers


\* the records of pages 1..n of the remote history, in page order
FirstPages(n) == SubSeq(RemoteRecords, 1, Min(n * PerPage, Len(remote)))

\* C22: get_commits_async(max_pages = n) returns the records of page 1, then
\* page 2, ..., then page n, whatever order the requests ran in
C22_PageOrder ==
    returned.async.set => returned.async.rows = FirstPages(returned.async.max_pages)

\* C23: called with the same max_pages over the same history, get_commits and
\* get_commits_async ask for the same set of pages and return the same records
C23_SyncAsyncEquivalence ==
    (returned.sync.set /\ returned.async.set
       /\ returned.sync.max_pages = returned.async.max_pages) =>
          /\ returned.sync.pages = returned.async.pages
          /\ returned.sync.rows = returned.async.rows


ParseSaveOps == {"parse", "parse_async", "save", "save_async"}

\* C24: a Commit made with auto_get false has no data; a caching get_commit or
\* get_commit_async whose response arrives leaves it with data; data once
\* set is never changed by any method; get_commit with cache false never
\* changes it; parse and save make a request only while there is no data
C24_FetchedTerminal ==
    /\ (commit.live /\ ~lastGet.done) => ~commit.data.cached
    /\ lastGet.done =>
          /\ lastGet.before.cached => commit.data = lastGet.before
          /\ ~lastGet.cache => commit.data = lastGet.before
          /\ (lastGet.arrived /\ lastGet.cache) => commit.data.cached
          /\ (lastGet.requested /\ lastGet.op \in ParseSaveOps) => ~lastGet.before.cached
          /\ (~lastGet.arrived) => commit.data = lastGet.before
\* a caching get_commit brought a different payload to a Commit that had data
C24_Witness ==
    /\ lastGet.done /\ lastGet.op \in {"get_commit", "get_commit_async"}
    /\ lastGet.cache /\ lastGet.arrived
    /\ lastGet.before.cached
    /\ lastGet.payload # lastGet.before


\* C25: a save_index that found no index file leaves one whose header row
\* names the columns of the entries, whatever the entries, the empty list
\* included, so that get_index reads it and finds its sha column
C25_InitialHeader ==
    \A n \in Names :
       (lastMerge.done /\ ~lastMerge.before.exists /\ dl.repo = n) =>
          /\ index[n].exists
          /\ index[n].header = CommitColumns
          /\ ~get_index(index[n]).raised
          /\ HasColumn(get_index(index[n]).df, "sha")


\* what holds of each commit a run with overwrite true has reached: its
\* detail was requested whether or not its artifact existed, and an artifact
\* not written in the iteration is the one that was there
OverwriteEach ==
    (run.op \in DownloadOps /\ run.overwrite) =>
       /\ run.detail = run.finished + Cardinality(run.failed)
       /\ lastSave.done =>
             /\ lastSave.requested
             /\ ~lastSave.wrote => artifacts[lastSave.path] = lastSave.before
       /\ run.written \cap (run.nofiles \cup run.failed) = {}

\* C26: a run with overwrite true requests the detail of every commit of
\* commits_df and writes its artifact in this run, whether or not it
\* existed; where the request failed or the payload had no files the artifact
\* is as it was before
C26_ForcedOverwrite ==
    /\ OverwriteEach
    /\ (run.op \in DownloadOps /\ run.overwrite /\ RunEnded) =>
          /\ run.detail = Len(dl.commits_df.rows)
          /\ run.written = ShasOf(dl.commits_df.rows) \ (run.nofiles \cup run.failed)
          /\ \A s \in run.nofiles \cup run.failed :
                artifacts[file_path(commit_url(repository_url(dl.owner, dl.repo), s), s)]
                  = run.start.artifacts[file_path(commit_url(repository_url(dl.owner, dl.repo), s), s)]


\* the paths of the commits among the first n of commits_df that were not
\* skipped for their missing file list, in the order of commits_df
PathsInOrder(n) ==
    LET kept == SelectSeq(SubSeq(dl.commits_df.rows, 1, n),
                          LAMBDA r : r.sha \notin run.nofiles)
    IN [k \in 1..Len(kept) |->
          file_path(commit_url(repository_url(dl.owner, dl.repo), kept[k].sha), kept[k].sha)]

\* C27: in a run of download_commits_async at most one detail request is in
\* flight; while the request of commit i is in flight the commits before it
\* have all finished, persisted or skipped, and the commits are persisted in
\* the order of commits_df
C27_OneInFlight ==
    (run.op = "download_commits_async") =>
       /\ run.inflight <= 1
       /\ run.inflight = (IF pc = "fetch" THEN 1 ELSE 0)
       /\ pc = "fetch" =>
             /\ run.finished = call.i - 1
             /\ commit.sha = dl.commits_df.rows[call.i].sha
       /\ pc \in {"loop", "fetch"} => call.saved_files = PathsInOrder(run.finished)
\* the request of the second commit is in flight, the first commit persisted
C27_Witness ==
    /\ run.op = "download_commits_async"
    /\ pc = "fetch" /\ call.i = 2
    /\ Len(call.saved_files) = 1
    /\ run.written # {}


\* C28: two rows of index.csv share a sha only if a save_index call read the
\* file while another had read it and not yet written; as long as every call
\* writes before the next reads there are no such rows, and each call leaves
\* the file save_index as a whole leaves
C28_IndexRace ==
    /\ ~Unique(IndexRows) => writers.overlapped
    /\ (~writers.overlapped /\ lastMerge.done
           /\ \A w \in 1..MaxWriters : writers.of[w].phase = "idle") =>
          index[dl.repo] = save_index(lastMerge.before, lastMerge.commits).file
\* two calls read the index before either appended: c2, in both tables and
\* not in the index read, has two rows
C28_Witness ==
    /\ writers.overlapped
    /\ \A w \in 1..MaxWriters : writers.of[w].phase = "idle"
    /\ \A w \in 1..2 : writers.of[w].mode = "a" /\ "c2" \in ShasOf(writers.of[w].new.rows)
    /\ writers.of[1].seen = writers.of[2].seen
    /\ Cardinality({i \in 1..Len(IndexRows) : IndexRows[i].sha = "c2"}) = 2


\* C29: when a run has returned, every artifact present holds the complete
\* change table of its commit, whatever happened to earlier runs
C29_Recovery ==
    (RunEnded /\ ~ret.raised) =>
       \A p \in ArtifactPaths :
          artifacts[p].exists =>
             /\ artifacts[p].complete
             /\ artifacts[p].table = files_to_df(DetailFiles(p[3]))


\* C30: a run on a repository, made after the first run on another
\* repository has returned, finds no artifact of its commits in place, and
\* leaves the index file and the artifacts of the other repository as that
\* run left them
C30_StorageIsolation ==
    (firstRun.set /\ run.op \in DownloadOps
       /\ <<dl.owner, dl.repo>> # <<firstRun.owner, firstRun.repo>>) =>
          /\ lastSave.done => ~lastSave.existed
          /\ index[firstRun.repo] = firstRun.disk.index[firstRun.repo]
          /\ \A p \in ArtifactPaths :
                firstRun.disk.artifacts[p].exists => artifacts[p] = firstRun.disk.artifacts[p]

\* C31: Repository.get_commits_async never closes a session its caller
\* supplied, and once the call has exited, by returning the commit table or
\* by a page request raising, a session it created itself is closed
C31_SessionOwnership ==
    /\ session.given => ~session.closed
    /\ session.exit \in {"return", "raise"} /\ ~session.given => session.closed

\* a call with session=None has returned the table of two pages, and its
\* own session is closed
C31_Witness ==
    /\ session.exit = "return" /\ ~session.given /\ session.closed
    /\ ret = Return("get_commits_async", ret.value)
    /\ returned.async.set /\ returned.async.pages = 1..MaxPages

\* the part of C31 that the code keeps: the caller's session is left open on
\* every exit, and the call's own session is closed on every return
C31_ClosedOnReturn ==
    /\ session.given => ~session.closed
    /\ session.exit = "return" /\ ~session.given => session.closed

\* a typed line that is an integer >= 0: decimal digits only, or "-" and zeros
IsCount(text) ==
    \/ text # <<>> /\ \A i \in 1..Len(text) : text[i] \in Digits
    \/ Len(text) > 1 /\ text[1] = "-" /\ \A i \in 2..Len(text) : text[i] = "0"
CountOf(text) == decimal(SelectSeq(text, LAMBDA c : c \in Digits))

\* C32: the command-line tool stays at the commit-count prompt while the lines
\* it reads are not integers >= 0 (they do not end the program and are not
\* passed on), it leaves the prompt with the first line that is one, and the
\* count it passes to Download is that integer, or 4000 if it is larger,
\* hence always in 0..4000
C32_CountValidation ==
    /\ cli.pc = "count" /\ cli.prompts > 0 => ~IsCount(cli.text)
    /\ cli.pc \in {"construct", "download"} \/ cli.passed # <<>>
          => /\ IsCount(cli.text)
             /\ cli.num_commits = Min(CountOf(cli.text), Limit)
    /\ cli.passed # <<>>
          => /\ cli.passed = <<cli.num_commits>>
             /\ cli.passed[1] \in 0..Limit
             /\ dl.made => dl.num_commits = cli.passed[1]
    /\ cli.pc = "raised" /\ cli.passed = <<>> => cli.exc = "EOFError"

\* a line that is no integer was read, then "4004": the Download was
\* constructed with 4000 commits
C32_Witness ==
    /\ cli.pc = "download"
    /\ cli.prompts = 2
    /\ cli.text = <<"4", "0", "0", "4">>
    /\ cli.passed = <<Limit>>
    /\ dl.made /\ dl.num_commits = Limit
====
